---- MODULE Spec2Model ----
(***************************************************************************)
(* Model of update_sites.py: the mirror-discovery pipeline.                *)
(*                                                                         *)
(* Strings are sequences of tokens.  Each literal of a provider's regular  *)
(* expression (the escaped URL prefix, the ".", each file extension) is    *)
(* one token; the file-name part of a URL is spelled character by          *)
(* character, because the character classes and the size-token search of   *)
(* file_size_from_url work on single characters there.                     *)
(***************************************************************************)
EXTENDS Integers, Sequences, FiniteSets, TLC

VARIABLES
    pc,        \* position of main(): "get","probe","write","dump","print","done","aborted"
    idx,       \* 1-based index of the mirror the for loop of line 37 is at
    page,      \* resp.text of the mirror being processed
    urls,      \* the candidates the loop of line 41 has still to visit, in iteration order
    sites,     \* the accumulated list of descriptors (line 36)
    file,      \* contents of ../sites.jsonc
    summary,   \* what line 52 printed: <<>> before it runs, <<count>> after
    failLog,   \* the mirrors line 49 reported, in order
    fetched,   \* history: per mirror "none" | "ok" | "failed"
    cands,     \* history: per mirror the candidate set computed by line 40
    gets,      \* history: per mirror the number of requests.get calls
    heads,     \* history: per <<mirror, url>> the number of requests.head calls
    got200,    \* history: the <<mirror, url>> whose HEAD answered status 200
    alive,     \* history: the <<mirror, url>> for which is_alive returned True
    visited,   \* history: the mirrors the for loop has entered, in order
    writes,    \* history: the number of times the output file was opened for writing
    writeErr,  \* history: line 50 or line 51 raised
    prior,     \* history: what the output file held when the run started
    lm,        \* descriptor builder in isolation: the mirror
    lurl,      \* descriptor builder in isolation: the live URL
    ldesc      \* descriptor builder in isolation: <<>>, then <<the descriptor built>>

mainVars == <<pc, idx, page, urls, sites, file, summary, failLog, fetched, cands,
              gets, heads, got200, alive, visited, writes, writeErr, prior>>
labelVars == <<lm, lurl, ldesc>>
vars == <<pc, idx, page, urls, sites, file, summary, failLog, fetched, cands,
          gets, heads, got200, alive, visited, writes, writeErr, prior,
          lm, lurl, ldesc>>

----------------------------------------------------------------------------
(* Bounds of the environment.                                              *)

\* At most this many index pages answer in one run; the others raise.
MaxOK == 1
\* An index page holds at most this many links.
MaxLinks == 2
\* Length of the URLs the descriptor builder is tried on in isolation.
MaxUrlLen == 4

----------------------------------------------------------------------------
(* Characters and character classes.                                       *)

Digit == {"0", "1", "2", "3", "4", "5", "6", "7", "8", "9"}
Upper == {"M", "G", "B", "Z"}
Lower == {"b", "a", "z"}
\* [0-9A-Za-z]
AlNum == Digit \cup Upper \cup Lower
\* [0-9A-Za-z\-]
AlNumDash == AlNum \cup {"-"}
\* [0-9A-ZaZ]: digits, upper case, and the single lower-case letter a
AwsClass == Digit \cup Upper \cup {"a"}

Pat(prefix, class, exts, group) ==
    [prefix |-> prefix, class |-> class, exts |-> exts, group |-> group]

Mirror(name, country, url, pattern) ==
    [name |-> name, country |-> country, url |-> url, pattern |-> pattern]

mirror_pages == <<
    Mirror("Hetzner Germany", "DE", "https://speed.hetzner.de/",
           Pat("https://speed.hetzner.de/", AlNum, <<"bin">>, FALSE)),
    Mirror("ThinkBroadband UK", "UK", "http://ipv4.download.thinkbroadband.com/",
           Pat("http://ipv4.download.thinkbroadband.com/", AlNum, <<"zip">>, FALSE)),
    Mirror("OVH France", "FR", "http://proof.ovh.net/files/",
           Pat("http://proof.ovh.net/files/", AlNum, <<"dat", "zip">>, TRUE)),
    Mirror("Tele2 Sweden", "SE", "http://speedtest.tele2.net/",
           Pat("http://speedtest.tele2.net/", AlNum, <<"zip">>, FALSE)),
    Mirror("Leaseweb NL", "NL", "https://mirror.nl.leaseweb.net/speedtest/",
           Pat("https://mirror.nl.leaseweb.net/speedtest/", AlNum, <<"bin", "zip">>, TRUE)),
    Mirror("Leaseweb DE", "DE", "https://mirror.de.leaseweb.net/speedtest/",
           Pat("https://mirror.de.leaseweb.net/speedtest/", AlNum, <<"bin", "zip">>, TRUE)),
    Mirror("Leaseweb US", "US", "https://mirror.us.leaseweb.net/speedtest/",
           Pat("https://mirror.us.leaseweb.net/speedtest/", AlNum, <<"bin", "zip">>, TRUE)),
    Mirror("Leaseweb SG", "SG", "https://mirror.sg.leaseweb.net/speedtest/",
           Pat("https://mirror.sg.leaseweb.net/speedtest/", AlNum, <<"bin", "zip">>, TRUE)),
    Mirror("Linode US", "US", "https://speedtest.newark.linode.com/",
           Pat("https://speedtest.newark.linode.com/", AlNumDash, <<"bin">>, FALSE)),
    Mirror("Linode DE", "DE", "https://speedtest.frankfurt.linode.com/",
           Pat("https://speedtest.frankfurt.linode.com/", AlNumDash, <<"bin">>, FALSE)),
    Mirror("Linode UK", "UK", "https://speedtest.london.linode.com/",
           Pat("https://speedtest.london.linode.com/", AlNumDash, <<"bin">>, FALSE)),
    Mirror("Linode JP", "JP", "https://speedtest.tokyo2.linode.com/",
           Pat("https://speedtest.tokyo2.linode.com/", AlNumDash, <<"bin">>, FALSE)),
    Mirror("Linode SG", "SG", "https://speedtest.singapore.linode.com/",
           Pat("https://speedtest.singapore.linode.com/", AlNumDash, <<"bin">>, FALSE)),
    Mirror("Azure Global", "GLOBAL", "https://www.azurespeed.com/Azure/Download",
           Pat("https://azurespeedtestfiles.blob.core.windows.net/blobtestfiles/test",
               AlNum, <<"db">>, FALSE)),
    Mirror("AWS S3 US East", "US", "https://speedtest.s3.amazonaws.com/",
           Pat("https://speedtest.s3.amazonaws.com/", AwsClass, <<"bin">>, FALSE)),
    Mirror("DigitalOcean NYC1", "US", "https://s3.amazonaws.com/speedtest-nyc1.digitalocean.com/",
           Pat("https://s3.amazonaws.com/speedtest-nyc1.digitalocean.com/", AlNum,
               <<"test">>, FALSE)) >>

NumMirrors == Len(mirror_pages)
Mirrors == 1..NumMirrors

Range(s) == {s[i] : i \in 1..Len(s)}


----------------------------------------------------------------------------
(* re.findall(pattern, text), line 40.                                     *)

\* Index of the last token of the maximal run of class characters that
\* starts at i (i - 1 when text[i] is not in the class): the greedy [..]+ .
RECURSIVE ClassRunEnd(_, _, _)
ClassRunEnd(text, i, class) ==
    IF i <= Len(text) /\ text[i] \in class
        THEN ClassRunEnd(text, i + 1, class)
        ELSE i - 1

\* A match of the pattern that starts at pos: the index of its last token, or
\* 0 when the pattern does not match there.  No class contains ".", so the
\* greedy run is the only length of [..]+ after which "\." can match and
\* backtracking finds nothing else.
MatchEnd(pat, text, pos) ==
    LET r == ClassRunEnd(text, pos + 1, pat.class)
    IN  IF /\ pos <= Len(text)
           /\ text[pos] = pat.prefix
           /\ r >= pos + 1
           /\ r + 2 <= Len(text)
           /\ text[r + 1] = "."
           /\ text[r + 2] \in Range(pat.exts)
        THEN r + 2
        ELSE 0

\* What findall reports for one match: the text of group 1 when the pattern
\* has a capturing group, the whole match when it has none.
MatchValue(pat, text, pos, e) ==
    IF pat.group THEN <<text[e]>> ELSE SubSeq(text, pos, e)

\* The non-overlapping matches, scanned left to right.
RECURSIVE FindAllFrom(_, _, _)
FindAllFrom(pat, text, pos) ==
    IF pos > Len(text)
        THEN <<>>
        ELSE LET e == MatchEnd(pat, text, pos)
             IN  IF e = 0
                     THEN FindAllFrom(pat, text, pos + 1)
                     ELSE <<MatchValue(pat, text, pos, e)>>
                              \o FindAllFrom(pat, text, e + 1)

FindAll(pat, text) == FindAllFrom(pat, text, 1)

\* The orders in which a sequence of n values can be laid out.
Orders(S) ==
    {f \in [1..Cardinality(S) -> S] : \A i, j \in 1..Cardinality(S) : f[i] = f[j] => i = j}

\* Mutation: the matches are iterated as the list findall returned.
ListOrder(matches) == {matches}

\* set(...) of line 40 and its iteration by line 41: duplicates collapse, and
\* the iteration order of a set of strings is any order.
SetOrders(matches) == Orders(Range(matches))

----------------------------------------------------------------------------
(* is_alive, lines 24-29.                                                  *)

\* A URL has a scheme when it starts with one of the catalog's URL prefixes
\* (each begins with http:// or https://).
HasScheme(u) ==
    /\ Len(u) > 0
    /\ \E m \in Mirrors : u[1] = mirror_pages[m].pattern.prefix

\* What requests.head(url, timeout=10) can do: answer with a status, or raise
\* (timeout, DNS failure, refused connection).  For a string with no scheme it
\* raises before anything is sent.
HeadOutcomes(u) ==
    IF HasScheme(u) THEN {"200", "204", "404", "exc"} ELSE {"exc"}

\* Mutation: any 2xx status counts as alive.
is_alive_2xx(outcome) == outcome \in {"200", "204"}

\* Mutation: the except clause answers True.
is_alive_except_true(outcome) == outcome \in {"200", "exc"}

is_alive(outcome) ==
    IF outcome = "exc" THEN FALSE ELSE outcome = "200"

----------------------------------------------------------------------------
(* file_size_from_url, lines 31-33: re.search(r'([0-9]+)(MB|GB|Mb|Gb)', url) *)

Units == {<<"M", "B">>, <<"G", "B">>, <<"M", "b">>, <<"G", "b">>}

UnitAt(u, k) == k + 1 <= Len(u) /\ <<u[k], u[k + 1]>> \in Units

\* Index of the last digit of the maximal run of digits starting at i.
RECURSIVE DigitRunEnd(_, _)
DigitRunEnd(u, i) ==
    IF i <= Len(u) /\ u[i] \in Digit THEN DigitRunEnd(u, i + 1) ELSE i - 1

\* The match attempt at position i: [0-9]+ takes the longest run and gives
\* digits back one at a time until a unit follows.  <<>> when there is none.
SizeMatchAt(u, i) ==
    LET e == DigitRunEnd(u, i)
        K == {k \in i..e : UnitAt(u, k + 1)}
    IN  IF K = {}
            THEN <<>>
            ELSE LET k == CHOOSE x \in K : \A y \in K : y <= x
                 IN  SubSeq(u, i, k + 2)

\* re.search: the match at the leftmost position that has one.
RECURSIVE SizeSearch(_, _)
SizeSearch(u, i) ==
    IF i > Len(u)
        THEN <<>>
        ELSE IF SizeMatchAt(u, i) # <<>>
                 THEN SizeMatchAt(u, i)
                 ELSE SizeSearch(u, i + 1)

FileLabel == <<"f", "i", "l", "e">>

\* Mutation: m.group(1), the digits, in place of m.group(0).
file_size_group1(url) ==
    LET m == SizeSearch(url, 1)
    IN  IF m # <<>> THEN SubSeq(m, 1, Len(m) - 2) ELSE FileLabel

file_size_from_url(url) ==
    LET m == SizeSearch(url, 1)
    IN  IF m # <<>> THEN m ELSE FileLabel

\* The dict of lines 43-47.
Descriptor(m, url) ==
    [name    |-> <<mirror_pages[m].name, " ">> \o file_size_from_url(url),
     url     |-> url,
     country |-> mirror_pages[m].country]


----------------------------------------------------------------------------
(* The environment: what an index page can hold.                           *)

\* File-name stems found on the index pages: with a size token, without one,
\* with a lower-case unit, with two candidates for the token, with a dash.
Stems == << <<"1", "G", "B">>,
            <<"a">>,
            <<"5", "M", "b">>,
            <<"1", "5", "M", "B">>,
            <<"1", "M", "-", "5", "G", "B">>,
            <<"z", "1">> >>

StemOf(k) == Stems[((k - 1) % Len(Stems)) + 1]

Link(m, stem, ext) == <<mirror_pages[m].pattern.prefix>> \o stem \o <<".", ext>>

\* The two files linked from mirror m's index page: consecutive stems, the
\* first with the pattern's first extension and the second with its last.
Links(m) ==
    LET exts == mirror_pages[m].pattern.exts
    IN  {Link(m, StemOf(m), exts[1]), Link(m, StemOf(m + 1), exts[Len(exts)])}

RECURSIVE Flatten(_)
Flatten(ls) ==
    IF ls = <<>> THEN <<>> ELSE <<"<a>">> \o Head(ls) \o <<"</a>">> \o Flatten(Tail(ls))

\* The page texts mirror m can answer with: up to MaxLinks links, in any
\* order, repetitions included; the empty page has no match.
Pages(m) ==
    {Flatten(ls) : ls \in UNION {[1..n -> Links(m)] : n \in 0..MaxLinks}}

\* What ../sites.jsonc can hold before the run: nothing, or an earlier run's list.
OldEntry ==
    [name |-> <<"Old Mirror", " ">> \o FileLabel,
     url |-> <<"http://old.example/", "o", "l", "d", ".", "bin">>,
     country |-> "XX"]
PriorContents == {<<>>, <<OldEntry>>}

----------------------------------------------------------------------------
(* main(), lines 35-52.                                                    *)

Bump(f, k) == IF k \in DOMAIN f THEN [f EXCEPT ![k] = @ + 1] ELSE f @@ (k :> 1)

NumOK == Cardinality({m \in Mirrors : fetched[m] = "ok"})

\* Where main() goes once mirror i is finished: the next mirror, or past the loop.
AfterMirror(i) == IF i < NumMirrors THEN "get" ELSE "write"

\* Mutation: the list is initialised again when a fetch fails.
ResetSites(s) == <<>>

\* The except clause of lines 48-49 prints and leaves the list alone.
OnFetchError(s) == s

\* Mutation: the loop of line 41 stays on the same candidate.
SameAgain(us) == us

\* The loop of line 41 moves on to the next candidate.
Rest(us) == Tail(us)

\* Mutation: the file is opened without truncation.
OpenForAppend(f) == f

\* open("../sites.jsonc", "w") of line 50 truncates the file.
OpenForWrite(f) == <<>>

\* json.dump of line 51 writes the list after what the file holds.
JsonDump(f, s) == f \o s

\* Mutation: an output error is handled and the summary is still printed.
OnWriteErrorHandled == "print"

\* An error of lines 50-51 is outside every try block and ends the run.
OnWriteError == "aborted"

\* Mutation: the summary counts the probes made.
SummaryOfProbes(s) == Cardinality(DOMAIN heads)

\* len(sites) of line 52.
SummaryCount(s) == Len(s)

Init ==
    /\ pc = "get"
    /\ idx = 1
    /\ page = <<>>
    /\ urls = <<>>
    /\ sites = <<>>
    /\ file \in PriorContents
    /\ summary = <<>>
    /\ failLog = <<>>
    /\ fetched = [m \in Mirrors |-> "none"]
    /\ cands = [m \in Mirrors |-> {}]
    /\ gets = [m \in Mirrors |-> 0]
    /\ heads = <<>>
    /\ got200 = {}
    /\ alive = {}
    /\ visited = <<>>
    /\ writes = 0
    /\ writeErr = FALSE
    /\ prior = file
    /\ lm = 1
    /\ lurl = <<>>
    /\ ldesc = <<>>

\* Lines 39-40 raise (timeout, connection error, ...): lines 48-49 report the
\* mirror and the loop goes on with the next one.
GetFail ==
    /\ pc = "get"
    /\ gets' = [gets EXCEPT ![idx] = @ + 1]
    /\ visited' = Append(visited, idx)
    /\ fetched' = [fetched EXCEPT ![idx] = "failed"]
    /\ failLog' = Append(failLog, idx)
    /\ sites' = OnFetchError(sites)
    /\ pc' = AfterMirror(idx)
    /\ idx' = idx + 1
    /\ page' = <<>>
    /\ urls' = <<>>
    /\ UNCHANGED <<file, summary, cands, heads, got200, alive, writes, writeErr, prior, lm, lurl, ldesc>>

\* Lines 39-40 succeed: the page text is read and the candidates extracted.
GetOk ==
    /\ pc = "get"
    /\ NumOK < MaxOK
    /\ \E text \in Pages(idx) :
         \E order \in SetOrders(FindAll(mirror_pages[idx].pattern, text)) :
            /\ page' = text
            /\ urls' = order
            /\ cands' = [cands EXCEPT ![idx] = Range(order)]
    /\ gets' = [gets EXCEPT ![idx] = @ + 1]
    /\ visited' = Append(visited, idx)
    /\ fetched' = [fetched EXCEPT ![idx] = "ok"]
    /\ pc' = "probe"
    /\ UNCHANGED <<idx, sites, file, summary, failLog, heads, got200, alive, writes,
                   writeErr, prior, lm, lurl, ldesc>>

\* One iteration of the loop of lines 41-47: probe the candidate and, when it
\* is alive, append its descriptor.
Probe ==
    /\ pc = "probe"
    /\ urls # <<>>
    /\ LET u == Head(urls)
       IN  \E outcome \in HeadOutcomes(u) :
             /\ heads' = Bump(heads, <<idx, u>>)
             /\ got200' = IF outcome = "200" THEN got200 \cup {<<idx, u>>} ELSE got200
             /\ IF is_alive(outcome)
                   THEN /\ sites' = Append(sites, Descriptor(idx, u))
                        /\ alive' = alive \cup {<<idx, u>>}
                   ELSE UNCHANGED <<sites, alive>>
    /\ urls' = Rest(urls)
    /\ UNCHANGED <<pc, idx, page, file, summary, failLog, fetched, cands, gets, visited,
                   writes, writeErr, prior, lm, lurl, ldesc>>

\* The loop of line 41 is exhausted: on to the next mirror.
EndMirror ==
    /\ pc = "probe"
    /\ urls = <<>>
    /\ pc' = AfterMirror(idx)
    /\ idx' = idx + 1
    /\ page' = <<>>
    /\ UNCHANGED <<urls, sites, file, summary, failLog, fetched, cands, gets, heads,
                   got200, alive, visited, writes, writeErr, prior, lm, lurl, ldesc>>

\* Line 50 raises (the path cannot be written): the file is as it was.
OpenFail ==
    /\ pc = "write"
    /\ pc' = OnWriteError
    /\ writeErr' = TRUE
    /\ UNCHANGED <<idx, page, urls, sites, file, summary, failLog, fetched, cands, gets,
                   heads, got200, alive, visited, writes, prior, lm, lurl, ldesc>>

\* Line 50 opens the file.
OpenOk ==
    /\ pc = "write"
    /\ file' = OpenForWrite(file)
    /\ writes' = writes + 1
    /\ pc' = "dump"
    /\ UNCHANGED <<idx, page, urls, sites, summary, failLog, fetched, cands, gets,
                   heads, got200, alive, visited, writeErr, prior, lm, lurl, ldesc>>

\* Line 51 writes the whole list and the with block closes the file.
DumpOk ==
    /\ pc = "dump"
    /\ file' = JsonDump(file, sites)
    /\ pc' = "print"
    /\ UNCHANGED <<idx, page, urls, sites, summary, failLog, fetched, cands, gets,
                   heads, got200, alive, visited, writes, writeErr, prior, lm, lurl, ldesc>>

\* Line 51 raises part way (the disk is full): what was written so far stays.
DumpFail ==
    /\ pc = "dump"
    /\ \E n \in 0..Len(sites) :
         /\ n < Len(sites) \/ n = 0
         /\ file' = JsonDump(file, SubSeq(sites, 1, n))
    /\ pc' = OnWriteError
    /\ writeErr' = TRUE
    /\ UNCHANGED <<idx, page, urls, sites, summary, failLog, fetched, cands, gets,
                   heads, got200, alive, visited, writes, prior, lm, lurl, ldesc>>

\* Line 52.
PrintSummary ==
    /\ pc = "print"
    /\ summary' = <<SummaryCount(sites)>>
    /\ pc' = "done"
    /\ UNCHANGED <<idx, page, urls, sites, file, failLog, fetched, cands, gets,
                   heads, got200, alive, visited, writes, writeErr, prior, lm, lurl, ldesc>>

Next ==
    \/ GetFail
    \/ GetOk
    \/ Probe
    \/ EndMirror
    \/ OpenFail
    \/ OpenOk
    \/ DumpOk
    \/ DumpFail
    \/ PrintSummary

Spec == Init /\ [][Next]_vars

\* main() is one thread that keeps running, and every network call returns or
\* times out (timeout=15, timeout=10): a step that can be taken is taken.
FairSpec == Spec /\ WF_vars(Next)



----------------------------------------------------------------------------
(* The descriptor builder (lines 31-33 and 43-47) on its own, for every     *)
(* mirror and every URL over a small alphabet.                              *)

LabelChars == {"1", "M", "G", "B", "b", "x"}

UrlStrings == UNION {[1..n -> LabelChars] : n \in 0..MaxUrlLen}

LabelInit ==
    /\ pc = "unit"
    /\ idx = 1
    /\ page = <<>>
    /\ urls = <<>>
    /\ sites = <<>>
    /\ file = <<>>
    /\ summary = <<>>
    /\ failLog = <<>>
    /\ fetched = [m \in Mirrors |-> "none"]
    /\ cands = [m \in Mirrors |-> {}]
    /\ gets = [m \in Mirrors |-> 0]
    /\ heads = <<>>
    /\ got200 = {}
    /\ alive = {}
    /\ visited = <<>>
    /\ writes = 0
    /\ writeErr = FALSE
    /\ prior = <<>>
    /\ lm \in Mirrors
    /\ lurl \in UrlStrings
    /\ ldesc = <<>>

\* Lines 43-47 for a URL that is_alive accepted.
BuildDescriptor ==
    /\ pc = "unit"
    /\ ldesc = <<>>
    /\ ldesc' = <<Descriptor(lm, lurl)>>
    /\ UNCHANGED <<mainVars, lm, lurl>>

LabelNext == BuildDescriptor

LabelSpec == LabelInit /\ [][LabelNext]_vars

----------------------------------------------------------------------------
(* Notions the properties are stated with.                                 *)

NameOf(m) == mirror_pages[m].name
CountryOf(m) == mirror_pages[m].country
PatternOf(m) == mirror_pages[m].pattern

\* The descriptors of a list that carry mirror m's name and country.
DescsOf(list, m) ==
    {i \in 1..Len(list) : list[i].name[1] = NameOf(m) /\ list[i].country = CountryOf(m)}

\* The descriptors of a list for URL u of mirror m.
DescsFor(list, m, u) == {i \in DescsOf(list, m) : list[i].url = u}

\* The loop of line 37 is through with mirror m.
Finished(m) == m < idx

\* u is, in full, a string of the language of the pattern: the prefix, one or
\* more characters of the class, a dot, one of the extensions.
FullMatch(pat, u) ==
    /\ Len(u) >= 4
    /\ u[1] = pat.prefix
    /\ \A k \in 2..(Len(u) - 2) : u[k] \in pat.class
    /\ u[Len(u) - 1] = "."
    /\ \E e \in 1..Len(pat.exts) : u[Len(u)] = pat.exts[e]

\* The distinct substrings of the text that are matches of the whole pattern.
WholeMatches(pat, text) ==
    {SubSeq(text, i, j) : <<i, j>> \in
        {ij \in (1..Len(text)) \X (1..Len(text)) :
            ij[1] <= ij[2] /\ FullMatch(pat, SubSeq(text, ij[1], ij[2]))}}

\* u[i..j] is one or more digits immediately followed by MB, GB, Mb or Gb.
IsSizeToken(u, i, j) ==
    /\ 1 <= i /\ i + 2 <= j /\ j <= Len(u)
    /\ \A k \in i..(j - 2) : u[k] \in Digit
    /\ \/ u[j - 1] = "M" /\ u[j] = "B"
       \/ u[j - 1] = "G" /\ u[j] = "B"
       \/ u[j - 1] = "M" /\ u[j] = "b"
       \/ u[j - 1] = "G" /\ u[j] = "b"

TokenStarts(u) == {i \in 1..Len(u) : \E j \in 1..Len(u) : IsSizeToken(u, i, j)}

\* The first size token of u, or "file" when u has none.
ExpectedLabel(u) ==
    IF TokenStarts(u) = {}
        THEN <<"f", "i", "l", "e">>
        ELSE LET i == CHOOSE x \in TokenStarts(u) : \A y \in TokenStarts(u) : x <= y
                 j == CHOOSE y \in 1..Len(u) : IsSizeToken(u, i, y)
             IN  SubSeq(u, i, j)


----------------------------------------------------------------------------
(* The properties.                                                         *)

AfterLoop == pc \in {"write", "dump", "print", "done", "aborted"}

\* C1: partial-failure isolation.  A mirror whose fetch raised has no
\* descriptor in the list, a fetch failure never ends the run (the run is
\* aborted only after the loop), and every descriptor of a mirror whose fetch
\* succeeded is in the list, and in the written document, whatever mirrors
\* failed before or after it.
C1_PartialFailureIsolation ==
    /\ \A m \in Mirrors : fetched[m] = "failed" => DescsOf(sites, m) = {}
    /\ \A m \in Mirrors : \A u \in cands[m] :
          <<m, u>> \in alive =>
              /\ fetched[m] = "ok"
              /\ \E i \in 1..Len(sites) : sites[i] = Descriptor(m, u)
              /\ pc = "done" => \E i \in 1..Len(file) : file[i] = Descriptor(m, u)
    /\ pc = "aborted" => idx = NumMirrors + 1
    /\ pc = "done" => \A m \in Mirrors : fetched[m] = "failed" => DescsOf(file, m) = {}

\* A finished run in which a mirror that answered, and has a descriptor in
\* the document, lies between two mirrors whose fetch raised.
C1_Witness ==
    /\ pc = "done"
    /\ \E a, b, c \in Mirrors :
          /\ a < b /\ b < c
          /\ fetched[a] = "failed" /\ fetched[c] = "failed"
          /\ fetched[b] = "ok" /\ DescsOf(file, b) # {}

\* C2: a candidate of a mirror that answered has a descriptor exactly when
\* is_alive returned True for it, is_alive returned True exactly for the
\* probes that answered status 200, every descriptor is that of a candidate,
\* and once a mirror is finished all its candidates were probed, so a dead
\* candidate takes no other candidate's descriptor away.
C2_DescriptorIffAlive ==
    /\ alive = got200
    /\ \A m \in Mirrors : \A u \in cands[m] :
          (DescsFor(sites, m, u) # {}) <=> (<<m, u>> \in alive)
    /\ \A p \in alive : p \in DOMAIN heads /\ p[2] \in cands[p[1]]
    /\ \A i \in 1..Len(sites) : \E m \in Mirrors :
          i \in DescsOf(sites, m) /\ sites[i].url \in cands[m]
    /\ \A m \in Mirrors : Finished(m) /\ fetched[m] = "ok" =>
          \A u \in cands[m] : <<m, u>> \in DOMAIN heads

\* A finished mirror with a dead candidate and a live one: only the live one
\* has a descriptor.
C2_Witness ==
    \E m \in Mirrors : \E u, v \in cands[m] :
        /\ Finished(m)
        /\ <<m, u>> \in DOMAIN heads /\ <<m, u>> \notin alive
        /\ DescsFor(sites, m, u) = {}
        /\ <<m, v>> \in alive /\ DescsFor(sites, m, v) # {}

\* C3: every descriptor of the list carries the name and country of a mirror
\* whose pattern its URL matches in full, and that URL answered status 200 to
\* this run's probe.
C3_UrlMatchesPatternAndProbed ==
    \A i \in 1..Len(sites) : \E m \in Mirrors :
        /\ i \in DescsOf(sites, m)
        /\ FullMatch(PatternOf(m), sites[i].url)
        /\ <<m, sites[i].url>> \in got200

\* Two descriptors of one mirror in the list.
C3_Witness ==
    \E m \in Mirrors : Cardinality(DescsOf(sites, m)) = 2

\* C4: the candidates computed by line 40 are the distinct substrings of the
\* page text that match the mirror's whole pattern.
C4_CandidatesAreWholeMatches ==
    pc = "probe" => cands[idx] = WholeMatches(PatternOf(idx), page)

\* C5: no two descriptors share a URL, in the list or in the document; a
\* candidate of a finished mirror has one descriptor when its probe succeeded
\* and none otherwise, however often the page text held it.
C5_Deduplication ==
    /\ \A i, j \in 1..Len(sites) : sites[i].url = sites[j].url => i = j
    /\ \A i, j \in 1..Len(file) : file[i].url = file[j].url => i = j
    /\ \A m \in Mirrors : \A u \in cands[m] :
          Finished(m) =>
              Cardinality(DescsFor(sites, m, u)) = IF <<m, u>> \in got200 THEN 1 ELSE 0

\* The page text held the same matching URL more than once, all candidates
\* are probed, and that URL has its one descriptor.
C5_Witness ==
    /\ pc = "probe"
    /\ urls = <<>>
    /\ Len(FindAll(PatternOf(idx), page)) > Cardinality(cands[idx])
    /\ DescsOf(sites, idx) # {}

\* C6: the descriptor built for a live URL has exactly the fields name, url
\* and country; country is the mirror's, url is the URL unchanged, and name is
\* the mirror's name, a space, and the first size token of the URL or "file";
\* the builder can always act.
C6_DescriptorBuilder ==
    /\ ldesc = <<>> /\ pc = "unit" => ENABLED BuildDescriptor
    /\ ldesc # <<>> =>
          /\ DOMAIN ldesc[1] = {"name", "url", "country"}
          /\ ldesc[1].country = CountryOf(lm)
          /\ ldesc[1].url = lurl
          /\ ldesc[1].name = <<NameOf(lm), " ">> \o ExpectedLabel(lurl)

\* A descriptor built from a URL whose size token does not start the URL.
C6_Witness ==
    /\ ldesc # <<>>
    /\ lurl = <<"x", "1", "M", "b">>
    /\ ldesc[1].name = <<NameOf(lm), " ", "1", "M", "b">>

\* C7: one GET per mirror entered and none before, one HEAD per candidate of
\* a mirror that answered, never two, and no HEAD for a mirror whose fetch
\* raised; after the loop every mirror has had its GET.
C7_NoRetry ==
    /\ \A m \in Mirrors : gets[m] = IF fetched[m] = "none" THEN 0 ELSE 1
    /\ AfterLoop => \A m \in Mirrors : gets[m] = 1
    /\ \A p \in DOMAIN heads :
          /\ heads[p] = 1
          /\ fetched[p[1]] = "ok"
          /\ p[2] \in cands[p[1]]
    /\ \A m \in Mirrors : Finished(m) /\ fetched[m] = "ok" =>
          \A u \in cands[m] : <<m, u>> \in DOMAIN heads

\* A finished run with a failed fetch and a failed probe.
C7_Witness ==
    /\ pc = "done"
    /\ \E m \in Mirrors : fetched[m] = "failed"
    /\ \E p \in DOMAIN heads : p \notin alive

\* C8: the output file is opened for writing at most once and only after
\* every mirror was processed; until then it holds what it held before the
\* run, and after a successful write it holds exactly this run's list.
C8_WrittenOnceReplacing ==
    /\ writes <= 1
    /\ writes = 1 => idx = NumMirrors + 1 /\ \A m \in Mirrors : fetched[m] # "none"
    /\ pc \in {"get", "probe", "write"} => writes = 0 /\ file = prior
    /\ pc \in {"print", "done"} => writes = 1 /\ file = sites

\* A finished run that found descriptors and whose file held an earlier
\* run's entry.
C8_Witness ==
    /\ pc = "done"
    /\ prior = <<OldEntry>>
    /\ sites # <<>>
    /\ file = sites

\* C9: when line 50 or line 51 raises, the run ends aborted and the summary
\* is never printed; the failure is not among the fetch failures that the
\* handler of lines 48-49 reported.
C9_WriteFailureAborts ==
    /\ writeErr => pc = "aborted" /\ summary = <<>>
    /\ pc = "aborted" => writeErr
    /\ Len(failLog) = Cardinality({m \in Mirrors : fetched[m] = "failed"})
    /\ \A i \in 1..Len(failLog) : fetched[failLog[i]] = "failed"

\* The write raised part way, after a run with a failed fetch.
C9_Witness ==
    /\ writeErr
    /\ pc = "aborted"
    /\ writes = 1
    /\ sites # <<>>
    /\ failLog # <<>>

\* C10: the mirrors are entered once each in catalog order, and every run
\* ends: aborted by the output write, or done with a summary that reports the
\* number of descriptors in the document, which is the number of live
\* candidates.
C10_Terminates ==
    /\ [](visited = [i \in 1..Len(visited) |-> i])
    /\ <>(\/ pc = "aborted"
          \/ /\ pc = "done"
             /\ visited = [i \in Mirrors |-> i]
             /\ summary = <<Len(file)>>
             /\ Len(file) = Cardinality(alive))

\* A finished run whose summary is smaller than the number of probes made.
C10_Witness ==
    /\ pc = "done"
    /\ summary = <<1>>
    /\ Cardinality(DOMAIN heads) = 2
    /\ failLog # <<>>

====
